---- MODULE Spec2Model ----
(***************************************************************************)
(* MicroVmMonitor (microsandbox-core/lib/runtime/monitor.rs): the process  *)
(* monitor of one sandbox.  start() opens the log, upserts the RUNNING     *)
(* record, puts the terminal in raw mode (TTY) and spawns the relay tasks; *)
(* stop() restores the terminal and marks the sandbox STOPPED; Drop        *)
(* restores the terminal.  The relay tasks run on their own after start.   *)
(***************************************************************************)
EXTENDS Integers, Sequences, FiniteSets, TLC

\* ------------------------------------------------------------------ bounds
\* Number of bytes a child writes to one stream before it closes it, in the
\* runs that explore the relay tasks (SpecRelay).
MaxStreamLen == 2
\* The same, in the runs that explore the Monitor's operations (Spec).
MaxLifecycleLen == 1
\* Read buffer of the piped relay tasks (8192 in the code, scaled down).
PipedBufLen == 2
\* Read buffer of the TTY relay task (1024 in the code, scaled down).
TtyBufLen == 2
\* Longest config file and sandbox name, in tokens, that generate_log_path is
\* applied to (SpecLogPath).
MaxPathLen == 3
\* Number of requests the SDK client may send in one run (SpecSdk).
MaxRequests == 3

\* --------------------------------------------------------------- constants
SANDBOX_STATUS_RUNNING == "RUNNING"
SANDBOX_STATUS_STOPPED == "STOPPED"

\* The fields the Monitor is built with (MicroVmMonitor::new).
SandboxName == "box"
ConfigFile == "Sandboxfile"
SupervisorPid == 10
\* The pids start() may be called with.
MicrovmPids == {20}
\* Rootfs::Native(path) / Rootfs::Overlayfs(paths)
Rootfs == [kind |-> "Overlayfs", paths |-> <<"/lower", "/upper">>]

\* Option<T>: None is <<>>, Some(x) is <<x>>.
None == <<>>
Some(x) == <<x>>

\* ---------------------------------------------------------------- terminal
\* The part of a termios value the Monitor can change, and a part it cannot.
Termios == [icanon : BOOLEAN, echo : BOOLEAN, speed : {9600, 38400}]
CookedTerm == [icanon |-> TRUE, echo |-> TRUE, speed |-> 38400]
NoEchoTerm == [icanon |-> TRUE, echo |-> FALSE, speed |-> 9600]
RawTerm == [icanon |-> FALSE, echo |-> FALSE, speed |-> 9600]
\* The settings the operator's terminal may have when the Monitor is built.
TermInits == {CookedTerm, NoEchoTerm, RawTerm}

\* nix::sys::termios::cfmakeraw: canonical mode and echo off, the rest kept.
CfMakeRaw(t) == [t EXCEPT !.icanon = FALSE, !.echo = FALSE]
IsRaw(t) == ~t.icanon /\ ~t.echo

\* ------------------------------------------------------------------- store
\* The store is a set of sandbox records, keyed by (name, config_file).
SandboxRecord(name, config, status, sup, vm, rootfs) ==
    [name |-> name, config_file |-> config, status |-> status,
     supervisor_pid |-> sup, microvm_pid |-> vm, rootfs_paths |-> rootfs]

SameKey(r, name, config) == r.name = name /\ r.config_file = config

\* db::save_or_update_sandbox: update the record of the key, or insert one.
SaveOrUpdateSandbox(db, name, config, status, sup, vm, rootfs) ==
    {r \in db : ~SameKey(r, name, config)}
        \cup {SandboxRecord(name, config, status, sup, vm, rootfs)}

\* db::update_sandbox_status: set the status of the key's record, if any.
UpdateSandboxStatus(db, name, config, status) ==
    {IF SameKey(r, name, config) THEN [r EXCEPT !.status = status] ELSE r : r \in db}

\* Records the store may hold before this Monitor starts: another sandbox of
\* the same config file, and a record a previous run of this sandbox left.
OtherRecord == SandboxRecord("other", ConfigFile, SANDBOX_STATUS_RUNNING, 3, 4, <<"native:", "/o">>)
StaleRecord == SandboxRecord(SandboxName, ConfigFile, SANDBOX_STATUS_STOPPED, 1, 2, <<"native:", "/s">>)
StoreInits == {{}, {OtherRecord}, {OtherRecord, StaleRecord}}

RECURSIVE JoinPaths(_)
JoinPaths(paths) ==
    IF Len(paths) = 0 THEN <<>>
    ELSE IF Len(paths) = 1 THEN <<paths[1]>>
    ELSE <<paths[1], ":">> \o JoinPaths(Tail(paths))

\* The rootfs descriptor string written to the store, as a sequence of parts.
RootfsPaths(rootfs) ==
    IF rootfs.kind = "Native" THEN <<"native:", rootfs.paths[1]>>
    ELSE <<"overlayfs:">> \o JoinPaths(rootfs.paths)

\* ---------------------------------------------------------------- log path
\* A String or PathBuf is a sequence of tokens: Sep is the path separator,
\* every other token stands for a run of ordinary characters.
Sep == "/"
LOG_SUFFIX == "log"
LogDir == <<Sep, "var", Sep, "log">>

\* Path::is_absolute
IsAbsolute(p) == p # <<>> /\ p[1] = Sep

\* Path::join (PathBuf::push): an absolute p replaces base; otherwise p is
\* appended, after a separator unless base already ends with one.
PathJoin(base, p) ==
    IF IsAbsolute(p) THEN p
    ELSE IF base = <<>> \/ base[Len(base)] = Sep THEN base \o p
    ELSE base \o <<Sep>> \o p

\* format!("{}.{}", sandbox_name, LOG_SUFFIX)
LogFileName(sandbox_name) == sandbox_name \o <<".", LOG_SUFFIX>>

\* generate_log_path for a Monitor built with these three fields.
GenerateLogPathOf(log_dir, config_file, sandbox_name) ==
    PathJoin(PathJoin(log_dir, config_file), LogFileName(sandbox_name))

\* generate_log_path of the Monitor of this model.
GenerateLogPath == GenerateLogPathOf(LogDir, <<ConfigFile>>, <<SandboxName>>)

\* The strings generate_log_path is applied to: up to MaxPathLen tokens, each
\* a name or a separator.
RECURSIVE TokenStrings(_)
TokenStrings(n) ==
    IF n = 0 THEN {<<>>}
    ELSE TokenStrings(n - 1)
             \cup {Append(t, c) : t \in {u \in TokenStrings(n - 1) : Len(u) = n - 1},
                                  c \in {"a", Sep}}
PathStrings == TokenStrings(MaxPathLen) \ {<<>>}
\* The (config_file, sandbox_name) pair of one sandbox.
SandboxKeys == [config_file : PathStrings, sandbox_name : PathStrings]
\* No generate_log_path computation under study.
NoPathCalc == [keys |-> <<>>, paths |-> <<>>]
\* Two sandboxes under one log_dir whose paths are yet to be computed.
PathCalcs == [keys : SandboxKeys \X SandboxKeys, paths : {<<>>}]

\* ------------------------------------------------------------ child output
\* The relay tasks start() can spawn, named by the stream each one reads.
TaskIds == {"stdout", "stderr", "tty"}
\* No task holds the log's mutex.
Unlocked == "unlocked"

\* The bytes a child writes: ASCII letters, and the two bytes of U+00E9.
StreamPattern(s) ==
    IF s = "stdout" THEN <<97, 195, 169>>
    ELSE IF s = "stderr" THEN <<101, 10, 114>>
    ELSE <<195, 169, 36>>
\* The len bytes the child writes to stream s if it never closes it early.
ChildOutput(s, len) == [i \in 1..len |-> StreamPattern(s)[((i - 1) % 3) + 1]]

\* ChildIo::Piped { stdin, stdout, stderr } (each optional) and
\* ChildIo::TTY { master_read, master_write }.
ChildIos ==
    [kind : {"Piped"}, stdin : BOOLEAN, stdout : BOOLEAN, stderr : BOOLEAN]
        \cup {[kind |-> "TTY", stdin |-> TRUE, stdout |-> FALSE, stderr |-> FALSE]}
\* The ChildIo values of a child that was given no stdin pipe.
NoStdinPipeIos == {io \in ChildIos : io.kind = "Piped" => ~io.stdin}

\* The streams of child_io that get a relay task.
RelayStreams(io) ==
    IF io.kind = "TTY" THEN {"tty"}
    ELSE {s \in {"stdout", "stderr"} : io[s]}

\* child_io has a handle the parent's stdin is copied into: Some(child_stdin)
\* or master_write.
HasStdinSink(io) == io.stdin

\* -------------------------------------------------------------- SDK client
\* No call made yet.
NoCall == [op |-> "none", outcome |-> "none", ret |-> "none"]
\* SandboxBase::new: is_started is false.  sent lists the JSON-RPC methods of
\* the requests handed to send(), last is the latest call, how it went and
\* what it returned.
NewClient == [is_started |-> FALSE, sent |-> <<>>, last |-> NoCall]

\* How a request of make_request can go, in the order of its steps: the
\* Authorization header cannot be built, send() fails, the status is not a
\* success, the body is not JSON, the body has an "error" member, the result
\* does not deserialize, or all is well.
RequestOutcomes ==
    {"header_err", "send_err", "http_status", "bad_json", "rpc_error", "bad_result", "ok"}
\* How start_sandbox can go once it is past its is_started check: the
\* timeout is not a valid Duration (from_secs_f32 panics), the reqwest client
\* cannot be built, then as a request of its own, with a timeout told from
\* other send() errors and a warning in the result told from none.
StartSandboxOutcomes ==
    {"bad_timeout", "build_err", "header_err", "send_timeout", "send_err",
     "http_status", "bad_json", "rpc_error", "ok_warning", "ok"}
\* stop_sandbox deserializes the result into a Value, which cannot fail.
StopSandboxOutcomes == RequestOutcomes \ {"bad_result"}
RunCodeOutcomes == RequestOutcomes

\* The call got as far as send().
RequestSent(outcome) == outcome \notin {"bad_timeout", "build_err", "header_err"}
\* The response was a success: the call goes on past its last `?`.
RequestSucceeds(outcome) == outcome \in {"ok", "ok_warning"}
\* What a call that goes this way returns.
CallReturn(outcome) ==
    IF RequestSucceeds(outcome) THEN "Ok"
    ELSE IF outcome = "bad_timeout" THEN "panic"
    ELSE IF outcome = "send_timeout" THEN "Timeout"
    ELSE IF outcome = "send_err" THEN "HttpError"
    ELSE IF outcome = "http_status" THEN "RequestFailed"
    ELSE IF outcome = "rpc_error" THEN "ServerError"
    ELSE "Err"

\* ------------------------------------------------------------------- state
VARIABLES
    \* MicroVmMonitor fields
    log_path,         \* Option<PathBuf>
    original_term,    \* Option<Termios>
    forward_output,   \* bool
    \* the world the Monitor acts on
    term,             \* the settings of the terminal on STDIN
    sandbox_db,       \* the records of the sandbox store
    microvm_log,      \* the bytes appended to the RotatingLog, in order
    log_lock,         \* the task holding the log's mutex, or Unlocked
    parent_out,       \* the bytes written to the parent's stdout and stderr
    pending,          \* per stream: the bytes the child has yet to write
    task,             \* per stream: the relay task's position and chunk
    stdin_copy,       \* the parent-stdin copy task: "absent", "copying" or how it ended
    \* what the Monitor is given
    child_io,         \* the ChildIo start is called with
    path_calc,        \* the generate_log_path computations under study
    \* the SDK client (sdk/rust/src/base.rs), studied on its own
    client,           \* SandboxBase: is_started, and the requests and calls made
    \* the calls made so far and what they returned
    start_result,     \* "none", "ok" or the step of start that failed
    start_pid,        \* the pid start was called with
    io_kind,          \* the ChildIo variant start was called with
    stop_result,      \* "none", or what the latest stop returned: "ok", or
                      \* "err", the error of update_sandbox_status
    stopped_ok,       \* a stop has returned Ok
    dropped,          \* the Monitor has been dropped
    captured,         \* the terminal settings right before start was called
    tcsetattr_calls,  \* number of tcsetattr calls made
    restore_result    \* "none", or how the restoring tcsetattr call ended

monitor_vars == <<log_path, original_term, forward_output>>
world_vars == <<term, sandbox_db>>
relay_vars == <<microvm_log, log_lock, parent_out, pending, task>>
call_vars == <<start_result, start_pid, io_kind, stop_result, stopped_ok, dropped>>
term_obs_vars == <<captured, tcsetattr_calls, restore_result>>
copy_vars == <<stdin_copy>>
sdk_vars == <<client>>
env_vars == <<child_io, path_calc, sdk_vars>>
vars == <<monitor_vars, world_vars, relay_vars, call_vars, term_obs_vars,
          copy_vars, env_vars>>

\* A relay task that was never spawned.
\* pc: the task's position; buf[..n]: the chunk of its latest read; written:
\* how much of it write_all has written; consumed: bytes read so far; lost:
\* bytes a failed write_all left unwritten; nread, nlogged, nfwd: chunks read,
\* chunks written-and-flushed, chunks forwarded.
NoTask == [pc |-> "absent", buf |-> <<>>, written |-> 0, consumed |-> 0,
           lost |-> 0, nread |-> 0, nlogged |-> 0, nfwd |-> 0]
\* A relay task as tokio::spawn leaves it: about to wait for its first read.
SpawnedTask(s) == [NoTask EXCEPT !.pc = IF s = "tty" THEN "readable" ELSE "read"]

\* MicroVmMonitor::new: no log path, no terminal snapshot.  The terminal has
\* one of the settings terms, the store one of the contents stores, the
\* child is going to write len bytes to each of its streams, its handles are
\* one of ios, and calcs are the generate_log_path computations to make.
InitWith(terms, stores, len, ios, calcs) ==
    /\ log_path = None
    /\ original_term = None
    /\ forward_output \in BOOLEAN
    /\ term \in terms
    /\ sandbox_db \in stores
    /\ microvm_log = <<>>
    /\ log_lock = Unlocked
    /\ parent_out = [p \in {"stdout", "stderr"} |-> <<>>]
    /\ pending = [s \in TaskIds |-> ChildOutput(s, len)]
    /\ task = [s \in TaskIds |-> NoTask]
    /\ stdin_copy = "absent"
    /\ child_io \in ios
    /\ path_calc \in calcs
    /\ client = NewClient
    /\ start_result = "none"
    /\ start_pid = 0
    /\ io_kind = "none"
    /\ stop_result = "none"
    /\ stopped_ok = FALSE
    /\ dropped = FALSE
    /\ captured = term
    /\ tcsetattr_calls = 0
    /\ restore_result = "none"

\* Every terminal and store the Monitor may meet, a child that writes little.
Init == InitWith(TermInits, StoreInits, MaxLifecycleLen, NoStdinPipeIos, {NoPathCalc})

\* One terminal and an empty store, a child that writes more.
InitRelay == InitWith({CookedTerm}, {{}}, MaxStreamLen, NoStdinPipeIos, {NoPathCalc})

\* One terminal and an empty store, a child with any handles that writes
\* little.
InitStdin == InitWith({CookedTerm}, {{}}, MaxLifecycleLen, ChildIos, {NoPathCalc})

\* A Monitor that is never started and a new SDK client.
InitSdk ==
    InitWith({CookedTerm}, {{}}, 0, {[kind |-> "TTY", stdin |-> TRUE,
                                      stdout |-> FALSE, stderr |-> FALSE]}, {NoPathCalc})

\* A Monitor that is never started, and two sandboxes' log paths to compute.
InitLogPath ==
    InitWith({CookedTerm}, {{}}, 0, {[kind |-> "TTY", stdin |-> TRUE,
                                      stdout |-> FALSE, stderr |-> FALSE]}, PathCalcs)

\* ------------------------------------------------------- Monitor operations
\* restore_terminal_settings reading the snapshot without taking it.
RestoreKeepsSnapshot(tc_ok) ==
    IF original_term # None
    THEN /\ tcsetattr_calls' = tcsetattr_calls + 1
         /\ term' = IF tc_ok THEN original_term[1] ELSE term
         /\ restore_result' = IF tc_ok THEN "ok" ELSE "err"
         /\ UNCHANGED original_term
    ELSE UNCHANGED <<original_term, tcsetattr_calls, term, restore_result>>

\* restore_terminal_settings clearing the snapshot only when tcsetattr
\* succeeds.
RestoreClearsOnlyOnSuccess(tc_ok) ==
    IF original_term # None
    THEN /\ original_term' = IF tc_ok THEN None ELSE original_term
         /\ tcsetattr_calls' = tcsetattr_calls + 1
         /\ term' = IF tc_ok THEN original_term[1] ELSE term
         /\ restore_result' = IF tc_ok THEN "ok" ELSE "err"
    ELSE UNCHANGED <<original_term, tcsetattr_calls, term, restore_result>>

\* restore_terminal_settings: take the snapshot; if there was one, write it
\* back with tcsetattr, which may fail (a warning is logged).
RestoreTerminalSettings(tc_ok) ==
    IF original_term # None
    THEN /\ original_term' = None
         /\ tcsetattr_calls' = tcsetattr_calls + 1
         /\ term' = IF tc_ok THEN original_term[1] ELSE term
         /\ restore_result' = IF tc_ok THEN "ok" ELSE "err"
    ELSE UNCHANGED <<original_term, tcsetattr_calls, term, restore_result>>

\* The steps of start that can fail, in the order start takes them.
StartOutcomes(io) ==
    {"create_dir", "log_open", "store_write", "ok"}
        \cup (IF io.kind = "TTY" THEN {"tcgetattr", "tcsetattr"} ELSE {})

\* start reached `self.log_path = Some(log_path)`.
StartSetsLogPath(outcome) == outcome \notin {"create_dir", "log_open"}
\* A start that writes the store before it opens the log.
StartWritesStoreBeforeLogOpen(outcome) == outcome \notin {"create_dir", "store_write"}
\* start's save_or_update_sandbox call returned Ok.
StartWritesStore(outcome) == outcome \notin {"create_dir", "log_open", "store_write"}
\* A start that takes the snapshot whatever the ChildIo variant.
StartCapturesTermAnyIo(io, outcome) == outcome \in {"tcsetattr", "ok"}
\* start reached `self.original_term = Some(term.clone())`.
StartCapturesTerm(io, outcome) == io.kind = "TTY" /\ outcome \in {"tcsetattr", "ok"}
\* start's tcsetattr(raw_term) call returned Ok.
StartSetsRaw(io, outcome) == io.kind = "TTY" /\ outcome = "ok"
\* start reached its tokio::spawn calls.
StartSpawns(io, outcome) == IF outcome = "ok" THEN RelayStreams(io) ELSE {}
\* start spawned the task that copies the parent's stdin to the child.
StartSpawnsCopy(io, outcome) == outcome = "ok" /\ HasStdinSink(io)

\* The upsert of start with the two pids in each other's place.
StartStoreWriteSwappedPids(db, pid) ==
    SaveOrUpdateSandbox(db, SandboxName, ConfigFile, SANDBOX_STATUS_RUNNING,
                        pid, SupervisorPid, RootfsPaths(Rootfs))

\* The upsert start issues.
StartStoreWrite(db, pid) ==
    SaveOrUpdateSandbox(db, SandboxName, ConfigFile, SANDBOX_STATUS_RUNNING,
                        SupervisorPid, pid, RootfsPaths(Rootfs))

\* ProcessMonitor::start(pid, child_io), ending at the step `outcome`.
Start(pid, io, outcome) ==
    /\ start_result = "none"
    /\ ~dropped
    /\ start_result' = outcome
    /\ start_pid' = pid
    /\ io_kind' = io.kind
    /\ captured' = term
    /\ log_path' = IF StartSetsLogPath(outcome) THEN Some(GenerateLogPath) ELSE log_path
    /\ sandbox_db' = IF StartWritesStore(outcome) THEN StartStoreWrite(sandbox_db, pid)
                     ELSE sandbox_db
    /\ original_term' = IF StartCapturesTerm(io, outcome) THEN Some(term) ELSE original_term
    /\ tcsetattr_calls' = IF StartCapturesTerm(io, outcome) THEN tcsetattr_calls + 1
                          ELSE tcsetattr_calls
    /\ term' = IF StartSetsRaw(io, outcome) THEN CfMakeRaw(term) ELSE term
    /\ task' = [s \in TaskIds |->
                  IF s \in StartSpawns(io, outcome) THEN SpawnedTask(s) ELSE task[s]]
    /\ stdin_copy' = IF StartSpawnsCopy(io, outcome) THEN "copying" ELSE stdin_copy
    /\ UNCHANGED <<forward_output, pending, microvm_log, log_lock, parent_out,
                   stop_result, stopped_ok, dropped, restore_result, env_vars>>

\* The status update stop issues.
StopStoreWrite(db) ==
    UpdateSandboxStatus(db, SandboxName, ConfigFile, SANDBOX_STATUS_STOPPED)

\* A stop that waits until every relay task has ended.
StopAwaitsRelayTasks(tc_ok, db_ok) ==
    /\ start_result # "none"
    /\ ~dropped
    /\ \A s \in TaskIds : task[s].pc \in {"absent", "eof", "read_error", "panicked"}
    /\ RestoreTerminalSettings(tc_ok)
    /\ sandbox_db' = IF db_ok THEN StopStoreWrite(sandbox_db) ELSE sandbox_db
    /\ log_path' = IF db_ok THEN None ELSE log_path
    /\ stop_result' = IF db_ok THEN "ok" ELSE "err"
    /\ stopped_ok' = (stopped_ok \/ db_ok)
    /\ UNCHANGED <<forward_output, relay_vars, start_result, start_pid, io_kind,
                   dropped, captured, copy_vars, env_vars>>

\* A stop that returns early, with an error of its own and no store update,
\* when the restoring tcsetattr call fails.
StopAbortsOnRestoreFailure(tc_ok, db_ok) ==
    /\ start_result # "none"
    /\ ~dropped
    /\ RestoreTerminalSettings(tc_ok)
    /\ LET aborted == original_term # None /\ ~tc_ok
       IN  /\ sandbox_db' = IF db_ok /\ ~aborted THEN StopStoreWrite(sandbox_db)
                            ELSE sandbox_db
           /\ log_path' = IF db_ok /\ ~aborted THEN None ELSE log_path
           /\ stop_result' = IF aborted THEN "restore_err"
                             ELSE IF db_ok THEN "ok" ELSE "err"
           /\ stopped_ok' = (stopped_ok \/ (db_ok /\ ~aborted))
    /\ UNCHANGED <<forward_output, relay_vars, start_result, start_pid, io_kind,
                   dropped, captured, copy_vars, env_vars>>

\* ProcessMonitor::stop(): restore the terminal, then update the store (which
\* may fail and end stop there), then clear the log path.
Stop(tc_ok, db_ok) ==
    /\ start_result # "none"
    /\ ~dropped
    /\ RestoreTerminalSettings(tc_ok)
    /\ sandbox_db' = IF db_ok THEN StopStoreWrite(sandbox_db) ELSE sandbox_db
    /\ log_path' = IF db_ok THEN None ELSE log_path
    /\ stop_result' = IF db_ok THEN "ok" ELSE "err"
    /\ stopped_ok' = (stopped_ok \/ db_ok)
    /\ UNCHANGED <<forward_output, relay_vars, start_result, start_pid, io_kind,
                   dropped, captured, copy_vars, env_vars>>

\* A Drop that does not restore the terminal.
DropWithoutRestore(tc_ok) ==
    /\ ~dropped
    /\ dropped' = TRUE
    /\ UNCHANGED <<monitor_vars, world_vars, relay_vars, start_result, start_pid,
                   io_kind, stop_result, stopped_ok, term_obs_vars, copy_vars,
                   env_vars>>

\* impl Drop for MicroVmMonitor.
Drop(tc_ok) ==
    /\ ~dropped
    /\ RestoreTerminalSettings(tc_ok)
    /\ dropped' = TRUE
    /\ UNCHANGED <<log_path, forward_output, sandbox_db, relay_vars, start_result,
                   start_pid, io_kind, stop_result, stopped_ok, captured, copy_vars,
                   env_vars>>

\* -------------------------------------------------------------- relay tasks
Min(a, b) == IF a < b THEN a ELSE b

\* Size of the task's read buffer: [0u8; 8192] (piped), [0u8; 1024] (TTY).
BufLen(s) == IF s = "tty" THEN TtyBufLen ELSE PipedBufLen

\* The parent stream a task forwards to: print! for stdout and the TTY,
\* eprint! for stderr.
ParentStream(s) == IF s = "stderr" THEN "stderr" ELSE "stdout"

\* The top of the task's loop: stdout.read(..).await / master_read.readable().await
LoopStart(s) == IF s = "tty" THEN "readable" ELSE "read"

\* The position where a task issues its read.
ReadPc(s) == IF s = "tty" THEN "try_read" ELSE "read"

\* String::from_utf8_lossy: valid sequences are kept, every other byte
\* becomes U+FFFD (EF BF BD).
IsAscii(b) == b < 128
IsContinuation(b) == b >= 128 /\ b < 192
IsLead2(b) == b >= 194 /\ b < 224
ReplacementChar == <<239, 191, 189>>

RECURSIVE Utf8Lossy(_)
Utf8Lossy(bytes) ==
    IF bytes = <<>> THEN <<>>
    ELSE IF IsAscii(bytes[1]) THEN <<bytes[1]>> \o Utf8Lossy(Tail(bytes))
    ELSE IF IsLead2(bytes[1]) /\ Len(bytes) >= 2 /\ IsContinuation(bytes[2])
         THEN <<bytes[1], bytes[2]>> \o Utf8Lossy(SubSeq(bytes, 3, Len(bytes)))
    ELSE ReplacementChar \o Utf8Lossy(Tail(bytes))

\* Bytes as they are recorded in the parent streams: the byte, the stream it
\* was read from and the number of the chunk it was read in.
Tagged(bytes, s, chunk) ==
    [i \in 1..Len(bytes) |-> [byte |-> bytes[i], src |-> s, chunk |-> chunk]]

\* A loop body that forwards the chunk before it logs it.
AfterReadForwardFirst(s) == "print"

\* A loop body that goes back to read without logging the chunk.
AfterReadReadsOn(s) == LoopStart(s)

\* Where a task goes after a read of n > 0 bytes: to log.lock().await.
AfterRead(s) == "lock"

\* A log shared without mutual exclusion.
LockAlwaysAvailable(s) == TRUE

\* log.lock().await returns once no task holds the mutex.
LockAvailable(s) == log_lock = Unlocked

\* Forwarding that ignores forward_output.
ForwardAlways(s) == TRUE

\* `if forward_output` around the print!/eprint! calls.
ForwardEnabled(s) == forward_output

\* The end of one stream ending every relay task of the sandbox.
EndAllTasks(s, how) ==
    [t \in TaskIds |-> IF task[t].pc = "absent" THEN task[t]
                       ELSE [task[t] EXCEPT !.pc = how]]

\* The task's loop ends (break, or the while-let pattern failing): only this
\* task is affected.
EndTask(s, how) == [task EXCEPT ![s].pc = how]

\* The relay tasks hold no reference to the Monitor: their steps leave its
\* fields, the terminal, the store, the results of its calls and the stdin
\* copy task alone.
MonitorUnchanged ==
    UNCHANGED <<monitor_vars, world_vars, call_vars, term_obs_vars, copy_vars, env_vars>>

\* TTY: master_read.readable().await returned Ok(guard).
RelayReadable(s) ==
    /\ task[s].pc = "readable"
    /\ task' = [task EXCEPT ![s].pc = "try_read"]
    /\ UNCHANGED <<microvm_log, log_lock, parent_out, pending>>
    /\ MonitorUnchanged

\* A TTY task that takes a would-block result for an error and ends.
RelayWouldBlockEndsTask(s) ==
    /\ task[s].pc = "try_read"
    /\ s = "tty"
    /\ pending[s] # <<>>
    /\ task' = EndTask(s, "would_block")
    /\ UNCHANGED <<microvm_log, log_lock, parent_out, pending>>
    /\ MonitorUnchanged

\* TTY: try_io returned Err(would block): `continue`.  The child has not
\* closed the terminal: it has output yet to write.
RelayWouldBlock(s) ==
    /\ task[s].pc = "try_read"
    /\ s = "tty"
    /\ pending[s] # <<>>
    /\ task' = [task EXCEPT ![s].pc = "readable"]
    /\ UNCHANGED <<microvm_log, log_lock, parent_out, pending>>
    /\ MonitorUnchanged

\* A read returned n > 0 bytes: the next n bytes the child wrote.
RelayReadChunk(s, n) ==
    /\ task[s].pc = ReadPc(s)
    /\ n \in 1..Min(BufLen(s), Len(pending[s]))
    /\ task' = [task EXCEPT ![s].pc = AfterRead(s),
                            ![s].buf = SubSeq(pending[s], 1, n),
                            ![s].written = 0,
                            ![s].consumed = @ + n,
                            ![s].nread = @ + 1]
    /\ pending' = [pending EXCEPT ![s] = SubSeq(@, n + 1, Len(@))]
    /\ UNCHANGED <<microvm_log, log_lock, parent_out>>
    /\ MonitorUnchanged

\* A read returned 0: the child closed the stream (it may do so before it
\* has written all of its output).
RelayReadEof(s) ==
    /\ task[s].pc = ReadPc(s)
    /\ task' = EndTask(s, "eof")
    /\ UNCHANGED <<microvm_log, log_lock, parent_out, pending>>
    /\ MonitorUnchanged

\* A read, or the TTY's wait for readiness, returned an error.
RelayReadError(s) ==
    /\ task[s].pc \in {"read", "readable", "try_read"}
    /\ task' = EndTask(s, "read_error")
    /\ UNCHANGED <<microvm_log, log_lock, parent_out, pending>>
    /\ MonitorUnchanged

\* log.lock().await
RelayLock(s) ==
    /\ task[s].pc = "lock"
    /\ LockAvailable(s)
    /\ log_lock' = s
    /\ task' = [task EXCEPT ![s].pc = "write"]
    /\ UNCHANGED <<microvm_log, parent_out, pending>>
    /\ MonitorUnchanged

\* The next byte of the task's chunk as the log records it: the byte, the
\* stream and chunk it was read in, and its offset in the stream.
LogEntry(s) ==
    [byte |-> task[s].buf[task[s].written + 1], src |-> s, chunk |-> task[s].nread,
     off |-> task[s].consumed - Len(task[s].buf) + task[s].written + 1]

\* log_guard.write_all(&buf[..n]): the sink takes the chunk's next byte.
RelayWriteByte(s) ==
    /\ task[s].pc = "write"
    /\ task[s].written < Len(task[s].buf)
    /\ microvm_log' = Append(microvm_log, LogEntry(s))
    /\ task' = [task EXCEPT ![s].written = @ + 1,
                            ![s].pc = IF task[s].written + 1 = Len(task[s].buf)
                                      THEN "flush" ELSE "write"]
    /\ UNCHANGED <<log_lock, parent_out, pending>>
    /\ MonitorUnchanged

\* write_all returned Err with part of the chunk unwritten: the error is
\* logged and the task goes on to flush.
RelayWriteFail(s) ==
    /\ task[s].pc = "write"
    /\ task[s].written < Len(task[s].buf)
    /\ task' = [task EXCEPT ![s].pc = "flush",
                            ![s].lost = @ + Len(task[s].buf) - task[s].written]
    /\ UNCHANGED <<microvm_log, log_lock, parent_out, pending>>
    /\ MonitorUnchanged

\* log_guard.flush() (an error is logged), then either the forwarding block
\* or the end of the loop body, where log_guard is dropped.
RelayFlush(s) ==
    /\ task[s].pc = "flush"
    /\ IF ForwardEnabled(s)
       THEN /\ task' = [task EXCEPT ![s].pc = "print", ![s].nlogged = @ + 1]
            /\ UNCHANGED log_lock
       ELSE /\ task' = [task EXCEPT ![s].pc = LoopStart(s), ![s].nlogged = @ + 1]
            /\ log_lock' = Unlocked
    /\ UNCHANGED <<microvm_log, parent_out, pending>>
    /\ MonitorUnchanged

\* print!/eprint!("{}", String::from_utf8_lossy(&buf[..n])) succeeded.
RelayForwardPrint(s) ==
    /\ task[s].pc = "print"
    /\ parent_out' = [parent_out EXCEPT ![ParentStream(s)] =
                        @ \o Tagged(Utf8Lossy(task[s].buf), s, task[s].nread)]
    /\ task' = [task EXCEPT ![s].pc = "pflush", ![s].nfwd = @ + 1]
    /\ UNCHANGED <<microvm_log, log_lock, pending>>
    /\ MonitorUnchanged

\* print!/eprint! panics when the write to the parent stream fails: the task
\* unwinds, dropping log_guard, and is gone.
RelayForwardPanic(s) ==
    /\ task[s].pc = "print"
    /\ task' = EndTask(s, "panicked")
    /\ log_lock' = Unlocked
    /\ UNCHANGED <<microvm_log, parent_out, pending>>
    /\ MonitorUnchanged

\* std::io::stdout().flush() (an error is logged or ignored), then the end of
\* the loop body, where log_guard is dropped.
RelayForwardFlush(s) ==
    /\ task[s].pc = "pflush"
    /\ task' = [task EXCEPT ![s].pc = LoopStart(s)]
    /\ log_lock' = Unlocked
    /\ UNCHANGED <<microvm_log, parent_out, pending>>
    /\ MonitorUnchanged

\* One step of the relay task of stream s.
Relay(s) ==
    \/ RelayReadable(s)
    \/ RelayWouldBlock(s)
    \/ \E n \in 1..BufLen(s) : RelayReadChunk(s, n)
    \/ RelayReadEof(s)
    \/ RelayReadError(s)
    \/ RelayLock(s)
    \/ RelayWriteByte(s)
    \/ RelayWriteFail(s)
    \/ RelayFlush(s)
    \/ RelayForwardPrint(s)
    \/ RelayForwardPanic(s)
    \/ RelayForwardFlush(s)

\* ---------------------------------------------------------- stdin copy task
\* How tokio::io::copy(parent stdin, child stdin / master_write) can return:
\* Ok at the end of the parent's stdin, Err when a read of the parent's stdin
\* or a write to the child fails (a warning is logged).
CopyEnds == {"stdin_eof", "copy_error"}

\* The copy returns and its task ends.  It is waiting for the parent's stdin
\* until then: input it copies to the child changes nothing modelled here.
StdinCopyEnd(how) ==
    /\ stdin_copy = "copying"
    /\ stdin_copy' = how
    /\ UNCHANGED <<monitor_vars, world_vars, relay_vars, call_vars, term_obs_vars,
                   env_vars>>

\* ------------------------------------------------------ SDK client, alone
\* The client after a call op that sends the request of method, or returns
\* before it does, and goes the way of outcome.
ClientAfterRequest(op, method, outcome, started) ==
    [is_started |-> started,
     sent |-> IF RequestSent(outcome) THEN Append(client.sent, method) ELSE client.sent,
     last |-> [op |-> op, outcome |-> outcome, ret |-> CallReturn(outcome)]]

\* The client after a call that returns at its is_started check.
ClientAfterEarlyReturn(op, why, ret) ==
    [client EXCEPT !.last = [op |-> op, outcome |-> why, ret |-> ret]]

\* The parts of the model the SDK client never touches.
SdkOnly ==
    UNCHANGED <<monitor_vars, world_vars, relay_vars, call_vars, term_obs_vars,
                copy_vars, child_io, path_calc>>

\* A start_sandbox that marks the client started as soon as send() returned
\* a response, whatever the response.
StartSandboxMarksOnAnyResponse(outcome) ==
    /\ RequestSent(outcome) => Len(client.sent) < MaxRequests
    /\ client' = IF client.is_started
                 THEN ClientAfterEarlyReturn("start_sandbox", "already_started", "Ok")
                 ELSE ClientAfterRequest("start_sandbox", "sandbox.start", outcome,
                                         outcome \notin {"bad_timeout", "build_err",
                                                         "header_err", "send_timeout",
                                                         "send_err"})
    /\ SdkOnly

\* SandboxBase::start_sandbox
StartSandbox(outcome) ==
    /\ RequestSent(outcome) => Len(client.sent) < MaxRequests
    /\ client' = IF client.is_started
                 THEN ClientAfterEarlyReturn("start_sandbox", "already_started", "Ok")
                 ELSE ClientAfterRequest("start_sandbox", "sandbox.start", outcome,
                                         RequestSucceeds(outcome))
    /\ SdkOnly

\* SandboxBase::stop_sandbox
StopSandbox(outcome) ==
    /\ RequestSent(outcome) => Len(client.sent) < MaxRequests
    /\ client' = IF ~client.is_started
                 THEN ClientAfterEarlyReturn("stop_sandbox", "not_started", "Ok")
                 ELSE ClientAfterRequest("stop_sandbox", "sandbox.stop", outcome,
                                         ~RequestSucceeds(outcome))
    /\ SdkOnly

\* SandboxBase::run_code
RunCode(outcome) ==
    /\ RequestSent(outcome) => Len(client.sent) < MaxRequests
    /\ client' = IF ~client.is_started
                 THEN ClientAfterEarlyReturn("run_code", "not_started", "NotStarted")
                 ELSE ClientAfterRequest("run_code", "sandbox.repl.run", outcome, TRUE)
    /\ SdkOnly

\* ------------------------------------------------- generate_log_path, alone
\* generate_log_path is applied to the two sandboxes of path_calc.
GenerateLogPaths ==
    /\ path_calc.keys # <<>>
    /\ path_calc.paths = <<>>
    /\ path_calc' = [path_calc EXCEPT !.paths =
                        [i \in 1..2 |-> GenerateLogPathOf(LogDir,
                                                          path_calc.keys[i].config_file,
                                                          path_calc.keys[i].sandbox_name)]]
    /\ UNCHANGED <<monitor_vars, world_vars, relay_vars, call_vars, term_obs_vars,
                   copy_vars, child_io, sdk_vars>>

\* ----------------------------------------------------------- specification
Next ==
    \/ \E pid \in MicrovmPids :
         \E outcome \in StartOutcomes(child_io) : Start(pid, child_io, outcome)
    \/ \E tc_ok \in BOOLEAN, db_ok \in BOOLEAN : Stop(tc_ok, db_ok)
    \/ \E tc_ok \in BOOLEAN : Drop(tc_ok)
    \/ \E s \in TaskIds : Relay(s)
    \/ \E how \in CopyEnds : StdinCopyEnd(how)

Spec == Init /\ [][Next]_vars

SpecRelay == InitRelay /\ [][Next]_vars

\* The relay tasks are scheduled fairly: a task that can take a step takes
\* one.  Nothing obliges the operator to type or to close the parent's
\* stdin, so the stdin copy task's end has no fairness condition.
SpecStdin ==
    /\ InitStdin
    /\ [][Next]_vars
    /\ \A s \in TaskIds : WF_vars(Relay(s))

NextLogPath == GenerateLogPaths

NextSdk ==
    \/ \E outcome \in StartSandboxOutcomes : StartSandbox(outcome)
    \/ \E outcome \in StopSandboxOutcomes : StopSandbox(outcome)
    \/ \E outcome \in RunCodeOutcomes : RunCode(outcome)

\* The SDK client alone, next to a Monitor that is never started.
SpecSdk == InitSdk /\ [][NextSdk]_vars

SpecLogPath == InitLogPath /\ [][NextLogPath]_vars

\* ------------------------------------------------------------------ claims
\* start returned Ok for a ChildIo::TTY.
TtySessionStarted == start_result = "ok" /\ io_kind = "TTY"
\* start returned an error.
StartFailed == start_result \notin {"none", "ok"}
\* The store's records of this sandbox's (name, config file) key.
KeyRecords == {r \in sandbox_db : SameKey(r, SandboxName, ConfigFile)}
\* The record start writes, with the given status.
StartedRecord(status) ==
    SandboxRecord(SandboxName, ConfigFile, status, SupervisorPid, start_pid,
                  RootfsPaths(Rootfs))

\* C1 as stated: once a Monitor that completed a TTY-mode start has been
\* dropped with stop never called, the terminal settings equal the settings
\* captured right before that start.
C1_DropRestoresTerminal ==
    (TtySessionStarted /\ dropped /\ stop_result = "none") => term = captured

\* C1 amended: such a drop takes the snapshot and makes one tcsetattr call
\* with it; when that call succeeds the terminal settings equal the settings
\* captured right before the start, and when it fails the terminal stays raw.
C1_DropRestoresTerminalIfTcsetattrSucceeds ==
    (TtySessionStarted /\ dropped /\ stop_result = "none") =>
        /\ original_term = None
        /\ tcsetattr_calls = 2
        /\ restore_result \in {"ok", "err"}
        /\ restore_result = "ok" => term = captured
        /\ restore_result = "err" => term = CfMakeRaw(captured)

\* A drop without stop brought a cooked terminal back from raw mode.
C1_Witness ==
    /\ TtySessionStarted /\ dropped /\ stop_result = "none"
    /\ restore_result = "ok"
    /\ term = captured
    /\ ~IsRaw(term)

\* C2, its state part as stated: in TTY mode, after a successful start the
\* terminal is raw and the pre-start settings are the snapshot, and after
\* stop the terminal settings equal that snapshot.
C2_RawThenRestored ==
    /\ (TtySessionStarted /\ stop_result = "none" /\ ~dropped) =>
           /\ IsRaw(term)
           /\ original_term = Some(captured)
    /\ (TtySessionStarted /\ stop_result # "none") => term = captured

\* C2 amended: in TTY mode, after a successful start the terminal is raw
\* (the pre-start settings made raw) and the snapshot holds the pre-start
\* settings; after stop the snapshot is gone and, when the restoring
\* tcsetattr call succeeded, the terminal settings equal the pre-start
\* settings; and no step after a stop (a further stop, a drop) calls
\* tcsetattr or changes the terminal settings.
C2_RawThenRestoredIfTcsetattrSucceeds ==
    /\ [](/\ (TtySessionStarted /\ stop_result = "none" /\ ~dropped) =>
                 /\ IsRaw(term)
                 /\ term = CfMakeRaw(captured)
                 /\ original_term = Some(captured)
          /\ (TtySessionStarted /\ stop_result # "none") =>
                 /\ original_term = None
                 /\ restore_result \in {"ok", "err"}
                 /\ restore_result = "ok" => term = captured)
    /\ [][(TtySessionStarted /\ stop_result # "none") =>
             /\ term' = term
             /\ tcsetattr_calls' = tcsetattr_calls
             /\ original_term' = original_term]_vars

\* A stop restored a cooked terminal, a later stop failed in the store, and
\* the Monitor was then dropped: two tcsetattr calls in all.
C2_Witness ==
    /\ TtySessionStarted
    /\ stopped_ok /\ stop_result = "err" /\ dropped
    /\ restore_result = "ok"
    /\ term = captured /\ ~IsRaw(term)
    /\ tcsetattr_calls = 2

\* C3 as stated: whenever start returned an error, whatever step failed,
\* the store holds no RUNNING record written by that start and no relay task
\* was spawned.
C3_FailedStartLeavesNoRunningRecord ==
    StartFailed =>
        /\ StartedRecord(SANDBOX_STATUS_RUNNING) \notin sandbox_db
        /\ \A s \in TaskIds : task[s].pc = "absent"

\* C4: after a successful start the store holds exactly one record of the
\* sandbox's key, RUNNING with the supplied pids; once a stop has succeeded
\* that record is STOPPED, with the same pids; and no step after start was
\* called changes the number of records.
C4_OneRecordRunningThenStopped ==
    /\ [](/\ (start_result = "ok" /\ ~stopped_ok) =>
                 KeyRecords = {StartedRecord(SANDBOX_STATUS_RUNNING)}
          /\ (start_result = "ok" /\ stopped_ok) =>
                 KeyRecords = {StartedRecord(SANDBOX_STATUS_STOPPED)})
    /\ [][start_result # "none" =>
             Cardinality(sandbox_db') = Cardinality(sandbox_db)]_vars

\* A started sandbox that replaced a stale record was stopped: its record is
\* STOPPED and the store still holds the two records it held before.
C4_Witness ==
    /\ start_result = "ok" /\ stopped_ok
    /\ sandbox_db = {OtherRecord, StartedRecord(SANDBOX_STATUS_STOPPED)}
    /\ start_pid \in MicrovmPids

\* The entries of a sequence of tagged bytes that come from stream s.
FromStream(seq, s) == SelectSeq(seq, LAMBDA e : e.src = s)
\* The task of stream s has ended, and how.
TaskEnded(s) == task[s].pc \in {"eof", "read_error", "panicked"}
\* The task holds a chunk it has read and is logging or forwarding.
InLoopBody(s) == task[s].pc \in {"lock", "write", "flush", "print", "pflush"}

\* C5 as stated: a failure to forward a chunk never ends a relay task, which
\* goes on reading and logging until end-of-stream: a task ends only on a
\* zero-length read or a read error of its own stream.
C5_ForwardFailureNeverEndsRelay ==
    \A s \in TaskIds : TaskEnded(s) => task[s].pc \in {"eof", "read_error"}

\* C6: under every interleaving of the relay tasks, the bytes of one chunk
\* lie next to each other in the log, in the order and with the values they
\* were read with, starting with the chunk's first byte; the bytes of two
\* chunks are never interleaved.
C6_ChunksContiguousInLog ==
    /\ \A i \in 1..Len(microvm_log) :
          microvm_log[i].byte =
              ChildOutput(microvm_log[i].src, microvm_log[i].off)[microvm_log[i].off]
    /\ \A i \in 1..Len(microvm_log), j \in 1..Len(microvm_log) :
          (i < j /\ microvm_log[i].src = microvm_log[j].src
                 /\ microvm_log[i].chunk = microvm_log[j].chunk) =>
              \A k \in i..j :
                  /\ microvm_log[k].src = microvm_log[i].src
                  /\ microvm_log[k].chunk = microvm_log[i].chunk
                  /\ microvm_log[k].off = microvm_log[i].off + (k - i)
    /\ \A s \in TaskIds :
          LET mine == SelectSeq(microvm_log,
                                LAMBDA e : e.src = s /\ e.chunk = task[s].nread)
          IN  InLoopBody(s) =>
                  /\ Len(mine) = task[s].written
                  /\ \A k \in 1..Len(mine) : mine[k].byte = task[s].buf[k]

\* Both tasks logged a two-byte chunk: stderr's lies whole in the log and
\* stdout, holding the lock, has written the first byte of its own.
C6_Witness ==
    /\ Len(microvm_log) = 3
    /\ microvm_log[1].src = "stderr" /\ microvm_log[2].src = "stderr"
    /\ microvm_log[1].chunk = microvm_log[2].chunk
    /\ microvm_log[3].src = "stdout"
    /\ log_lock = "stdout" /\ task["stdout"].pc = "write"
    /\ Len(task["stdout"].buf) = 2

\* C7 as stated: a task holds the log lock only across one write-and-flush
\* pair, never while it forwards the chunk or waits for its next read.
C7_LockOnlyAcrossWriteAndFlush ==
    \A s \in TaskIds : log_lock = s => task[s].pc \in {"write", "flush"}

\* C8: per stream, the bytes in the log and the bytes forwarded to the parent
\* stream are in the order of the reads (chunk numbers never decrease, log
\* offsets increase), the forwarded chunks are the first nfwd chunks read,
\* a chunk is forwarded only after its log write and flush are over, and it
\* is logged (and, with forwarding enabled, forwarded) before the next read.
C8_ReadOrderKept ==
    \A s \in TaskIds :
        LET logged == FromStream(microvm_log, s)
            fwd == FromStream(parent_out[ParentStream(s)], s)
        IN  /\ \A i \in 1..Len(logged), j \in 1..Len(logged) :
                   i < j => /\ logged[i].chunk <= logged[j].chunk
                            /\ logged[i].off < logged[j].off
            /\ \A i \in 1..Len(fwd), j \in 1..Len(fwd) :
                   i < j => fwd[i].chunk <= fwd[j].chunk
            /\ {fwd[i].chunk : i \in 1..Len(fwd)} = 1..task[s].nfwd
            /\ task[s].nfwd <= task[s].nlogged
            /\ task[s].nlogged <= task[s].nread
            /\ task[s].nread <= task[s].nlogged + 1
            /\ forward_output => task[s].nlogged <= task[s].nfwd + 1
            /\ ~forward_output => task[s].nfwd = 0

\* stdout was read in two chunks, both logged and then forwarded, in order.
C8_Witness ==
    /\ forward_output
    /\ task["stdout"].nread = 2 /\ task["stdout"].nfwd = 2
    /\ Len(FromStream(microvm_log, "stdout")) = 2
    /\ Len(FromStream(parent_out["stdout"], "stdout")) >= 2

\* C9: with forwarding disabled nothing is ever written to the parent's
\* stdout or stderr, in piped and in TTY mode.
C9_NoForwardingWhenDisabled ==
    ~forward_output => \A p \in {"stdout", "stderr"} : parent_out[p] = <<>>

\* With forwarding disabled, both piped streams were logged in full and the
\* parent streams are still empty.
C9_Witness ==
    /\ ~forward_output
    /\ task["stdout"].pc = "eof" /\ task["stderr"].pc = "eof"
    /\ Len(microvm_log) = 2 * MaxStreamLen
    /\ \A p \in {"stdout", "stderr"} : parent_out[p] = <<>>

\* C10: a step in which one task ends on a zero-length read or a read error
\* changes nothing of any other task, of the streams, the log, the lock or
\* of what start and stop returned; and an ended task never holds the lock,
\* so its siblings are never kept from logging.
C10_EndOfOneStreamIsIsolated ==
    /\ [](\A s \in TaskIds : TaskEnded(s) => log_lock # s)
    /\ [][\A s \in TaskIds :
            (task[s].pc \notin {"eof", "read_error"}
                 /\ task'[s].pc \in {"eof", "read_error"}) =>
                /\ \A t \in TaskIds \ {s} : task'[t] = task[t]
                /\ UNCHANGED <<pending, microvm_log, log_lock, parent_out>>
                /\ UNCHANGED <<monitor_vars, world_vars, call_vars>>]_vars

\* stdout failed on its first read; stderr went on to log both its chunks
\* and stop returned Ok.
C10_Witness ==
    /\ task["stdout"].pc = "read_error" /\ task["stdout"].nread = 0
    /\ task["stderr"].pc = "eof" /\ task["stderr"].nlogged = 2
    /\ Len(FromStream(microvm_log, "stderr")) = 2
    /\ start_result = "ok" /\ stop_result = "ok"

\* The byte values of a sequence of tagged bytes.
Bytes(seq) == [i \in 1..Len(seq) |-> seq[i].byte]
\* What the child wrote to stream s before it closed it, for a task that has
\* read the stream to its end.
ChildWrote(s) == ChildOutput(s, task[s].consumed)
\* start returned Ok for a piped child whose only relayed stream is stdout.
PipedStdoutOnly ==
    /\ start_result = "ok"
    /\ child_io.kind = "Piped"
    /\ RelayStreams(child_io) = {"stdout"}

\* C11 as stated, at the end of the run it speaks of: in piped mode, when the
\* child has written a finite byte sequence to stdout and closed it (no other
\* stream relayed, every log write succeeding) and the stdout task has read
\* the end-of-stream, the log holds exactly that sequence, and the parent's
\* stdout holds exactly the same sequence with forwarding enabled and
\* nothing with forwarding disabled.
C11_PipedStdoutRelayedExactly ==
    (PipedStdoutOnly /\ task["stdout"].pc = "eof" /\ task["stdout"].lost = 0) =>
        /\ Bytes(microvm_log) = ChildWrote("stdout")
        /\ Bytes(parent_out["stdout"]) =
               IF forward_output THEN ChildWrote("stdout") ELSE <<>>

\* The task is at, or waiting for, its next read.
AtRead(s) == task[s].pc \in {"read", "readable", "try_read"}
\* The bytes of stream s in the log, in log order.
LoggedBytes(s) == Bytes(FromStream(microvm_log, s))
\* The bytes of the task's chunk that write_all has yet to take.
Unwritten(s) ==
    IF task[s].pc \in {"lock", "write"} THEN Len(task[s].buf) - task[s].written ELSE 0

\* C12 as stated: each chunk a relay task has read is in the log (appended
\* and flushed) before the task issues its next read, and at every moment a
\* task has at most one chunk read but not yet flushed to the log.
C12_ChunkInLogBeforeNextRead ==
    \A s \in TaskIds :
        /\ task[s].nread <= task[s].nlogged + 1
        /\ AtRead(s) => LoggedBytes(s) = ChildWrote(s)

\* C12 amended: write_all and flush have returned for every chunk a task has
\* read before the task issues its next read, so at every moment at most one
\* chunk of a task is between its read and the return of its flush; every
\* byte read is in the log, or unwritten in that one chunk, or was left
\* unwritten by a write_all that failed (the error is logged and the task
\* goes on); and when no write_all has failed the log holds, at each read,
\* exactly the bytes read so far.
C12_ChunkWrittenAndFlushedBeforeNextRead ==
    \A s \in TaskIds :
        /\ task[s].nread <= task[s].nlogged + 1
        /\ (AtRead(s) \/ TaskEnded(s)) => task[s].nlogged = task[s].nread
        /\ task[s].pc \in {"lock", "write", "flush"} =>
               task[s].nread = task[s].nlogged + 1
        /\ Len(LoggedBytes(s)) + task[s].lost + Unwritten(s) = task[s].consumed
        /\ (task[s].lost = 0 /\ Unwritten(s) = 0) => LoggedBytes(s) = ChildWrote(s)

\* stdout is about to issue its third read: its first chunk is in the log,
\* the write of its second chunk failed and that byte is not in the log.
C12_Witness ==
    /\ task["stdout"].pc = "read"
    /\ task["stdout"].nread = 2 /\ task["stdout"].nlogged = 2
    /\ task["stdout"].lost = 1
    /\ LoggedBytes("stdout") = <<97>>

\* C13: a step in which stop returns the store update's error leaves the
\* store and the log path as they were (the update is not retried or partly
\* applied), and the restoration that stop made stays: the snapshot is gone
\* and, if there was one, tcsetattr was called once with it and the terminal
\* has the snapshot's settings when that call succeeded.  A stop whose
\* restoring tcsetattr call fails still issues the status update: it returns
\* Ok with the record STOPPED and the log path cleared, or the update's own
\* error.  And whenever the latest stop returned Ok the sandbox's records
\* are STOPPED.
C13_StopSurfacesStoreErrorOnly ==
    /\ [][(stop_result' = "err" /\ stop_result # "err") =>
             /\ sandbox_db' = sandbox_db
             /\ log_path' = log_path
             /\ original_term' = None
             /\ original_term # None =>
                    /\ tcsetattr_calls' = tcsetattr_calls + 1
                    /\ restore_result' \in {"ok", "err"}
                    /\ restore_result' = "ok" => term' = original_term[1]
                    /\ restore_result' = "err" => term' = term
             /\ original_term = None => term' = term]_vars
    /\ [][(~dropped' /\ restore_result' = "err" /\ restore_result # "err") =>
             /\ stop_result' \in {"ok", "err"}
             /\ stop_result' = "ok" =>
                    /\ sandbox_db' = StopStoreWrite(sandbox_db)
                    /\ log_path' = None]_vars
    /\ [](stop_result = "ok" =>
             \A r \in KeyRecords : r.status = SANDBOX_STATUS_STOPPED)

\* A stop of a TTY session restored a cooked terminal and then failed in the
\* store: it returned the error, the record is still RUNNING, the log path
\* is still remembered and the terminal stays restored.
C13_Witness ==
    /\ TtySessionStarted /\ ~dropped
    /\ stop_result = "err" /\ ~stopped_ok
    /\ restore_result = "ok" /\ original_term = None
    /\ term = captured /\ ~IsRaw(term)
    /\ KeyRecords = {StartedRecord(SANDBOX_STATUS_RUNNING)}
    /\ log_path # None

\* start returned the error of create_dir_all or of RotatingLog::new.
StartFailedEarly == start_result \in {"create_dir", "log_open"}

\* C14: a start that fails at the directory creation or at the opening of
\* the log changes nothing but its result: the store, the relay and copy
\* tasks, the log, the terminal, the snapshot and the log path are as they
\* were; so after it the store holds no record written by that start, no
\* task exists, tcsetattr was never called and the terminal has the
\* settings it had before the start.
C14_EarlyStartFailureTouchesNothing ==
    /\ [][(start_result = "none" /\ start_result' \in {"create_dir", "log_open"}) =>
             /\ UNCHANGED <<sandbox_db, task, stdin_copy, microvm_log, parent_out>>
             /\ UNCHANGED <<term, original_term, tcsetattr_calls, log_path>>]_vars
    /\ [](StartFailedEarly =>
             /\ StartedRecord(SANDBOX_STATUS_RUNNING) \notin sandbox_db
             /\ \A s \in TaskIds : task[s].pc = "absent"
             /\ stdin_copy = "absent"
             /\ microvm_log = <<>>
             /\ tcsetattr_calls = 0
             /\ original_term = None
             /\ term = captured)

\* A TTY-mode start failed at the opening of the log: the store holds the
\* two records it held before, the terminal is cooked, and nothing runs.
C14_Witness ==
    /\ start_result = "log_open"
    /\ child_io.kind = "TTY"
    /\ sandbox_db = {OtherRecord, StaleRecord}
    /\ term = CookedTerm /\ original_term = None
    /\ \A s \in TaskIds : task[s].pc = "absent"

\* C15 as stated: for two sandboxes under the same log_dir whose
\* (config_file, sandbox_name) pairs differ, the paths generate_log_path
\* computes differ.
C15_DistinctPairsDistinctPaths ==
    (path_calc.paths # <<>> /\ path_calc.keys[1] # path_calc.keys[2]) =>
        path_calc.paths[1] # path_calc.paths[2]

\* The task of stream s was spawned and has not ended.
TaskRunning(s) == task[s].pc # "absent" /\ ~TaskEnded(s)

\* C16: a start that returns Ok leaves each relay task it spawned at the
\* top of its loop, with no byte read, logged or forwarded: it returns on
\* dispatch.  Whatever the relay tasks are doing, a stop of a started, live
\* Monitor can run to completion, and the step in which stop returns changes
\* nothing of the tasks, the log, the lock, the parent streams or the child's
\* pending output.  A task that is running, after a stop as before it, can
\* take its next step unless it waits for the log lock another task holds.
C16_MonitorNeverWaitsForTasks ==
    /\ [][(start_result = "none" /\ start_result' = "ok") =>
             /\ \A s \in TaskIds :
                   task'[s] = IF s \in RelayStreams(child_io) THEN SpawnedTask(s)
                              ELSE NoTask
             /\ UNCHANGED <<microvm_log, log_lock, parent_out, pending>>]_vars
    /\ []((start_result # "none" /\ ~dropped) =>
             ENABLED (\E tc_ok \in BOOLEAN, db_ok \in BOOLEAN : Stop(tc_ok, db_ok)))
    /\ [][stop_result' # stop_result => UNCHANGED <<relay_vars, copy_vars>>]_vars
    /\ [](\A s \in TaskIds :
             (TaskRunning(s) /\ (task[s].pc = "lock" => log_lock = Unlocked)) =>
                 ENABLED Relay(s))

\* stop has returned Ok while the stdout task holds the lock with a chunk it
\* has yet to write: the log is still empty and the task is about to append.
C16_Witness ==
    /\ start_result = "ok" /\ stop_result = "ok"
    /\ task["stdout"].pc = "write" /\ task["stdout"].written = 0
    /\ log_lock = "stdout"
    /\ microvm_log = <<>>
    /\ StartedRecord(SANDBOX_STATUS_STOPPED) \in sandbox_db

\* Every stream of the child that start relays has been closed by the child:
\* it wrote all its output to it, or the task has seen its end.
ChildStreamsClosed ==
    /\ start_result = "ok"
    /\ \A s \in RelayStreams(child_io) :
          pending[s] = <<>> \/ task[s].pc \in {"eof", "read_error"}
\* Every task that reads a stream of the child has ended.
ReadTasksEnded == \A s \in RelayStreams(child_io) : TaskEnded(s)
\* The task that copies the parent's stdin to the child, if any, has ended.
CopyTaskEnded == HasStdinSink(child_io) => stdin_copy \in CopyEnds

\* C17 as stated: with the relay tasks scheduled fairly, once all of the
\* child's streams have closed, every task start spawned, the stdout, stderr
\* and TTY-read tasks and the parent-stdin copy task, eventually ends.
C17_AllTasksEventuallyEnd ==
    ChildStreamsClosed ~> (ReadTasksEnded /\ CopyTaskEnded)

\* The part of C17 that holds: the tasks that read the child's streams end.
C17_ReadTasksEventuallyEnd == ChildStreamsClosed ~> ReadTasksEnded

\* What the TTY read task does on each result of its read, as transitions of
\* its record t to t2: from try_io it either ends on a zero-length read or a
\* read error (nothing else changes), or goes back to readable() on a
\* would-block result (nothing else changes: it neither ends nor logs), or
\* holds a chunk of 1..TtyBufLen bytes taken from the child's output and
\* goes on to log it; and a task that has ended stays ended.
TtyReadStep(t, t2) ==
    /\ (t.pc = "try_read" /\ t2 # t) =>
           t2.pc \in {"eof", "read_error", "readable", "lock"}
    /\ (t.pc = "try_read" /\ t2.pc \in {"eof", "read_error"}) =>
           /\ t2 = [t EXCEPT !.pc = t2.pc]
           /\ UNCHANGED <<microvm_log, log_lock, parent_out, pending>>
    /\ (t.pc = "try_read" /\ t2.pc = "readable") =>
           /\ t2 = [t EXCEPT !.pc = "readable"]
           /\ UNCHANGED <<microvm_log, log_lock, parent_out, pending>>
    /\ (t.pc = "try_read" /\ t2.pc = "lock") =>
           /\ Len(t2.buf) \in 1..TtyBufLen
           /\ t2.nread = t.nread + 1
           /\ pending["tty"] = t2.buf \o pending'["tty"]
           /\ UNCHANGED <<microvm_log, parent_out>>
    /\ t.pc \in {"eof", "read_error", "panicked"} => t2 = t

\* C18, its last part as stated: in the TTY read task every nonzero read is
\* in the log (appended and flushed) before the task waits again.
C18_TtyReadsLoggedBeforeWaiting ==
    task["tty"].pc \in {"readable", "try_read"} =>
        LoggedBytes("tty") = ChildWrote("tty")

\* C18 amended: in the TTY read task a zero-length read ends the task, a
\* would-block result sends it back to waiting without ending it or logging
\* anything, and any other read error ends it; and before the task waits
\* again write_all and flush have returned for every nonzero read, the log
\* holding every byte read but those a failed write_all left unwritten (the
\* error is logged), so exactly the bytes read when no write_all failed.
C18_TtyReadsWrittenBeforeWaiting ==
    /\ [][TtyReadStep(task["tty"], task'["tty"])]_vars
    /\ [](task["tty"].pc \in {"readable", "try_read"} =>
             /\ task["tty"].nlogged = task["tty"].nread
             /\ Len(LoggedBytes("tty")) + task["tty"].lost = task["tty"].consumed
             /\ task["tty"].lost = 0 => LoggedBytes("tty") = ChildWrote("tty"))

\* The TTY task waits for its second read: the byte of its first read is in
\* the log, and the child, which has more to write, has not closed.
C18_Witness ==
    /\ task["tty"].pc = "readable"
    /\ task["tty"].nread = 1 /\ task["tty"].nlogged = 1
    /\ task["tty"].lost = 0
    /\ LoggedBytes("tty") = <<195>>
    /\ pending["tty"] # <<>>

\* C19: whenever the Monitor holds a terminal snapshot, start was called
\* with ChildIo::TTY and got as far as the snapshot, no stop and no drop has
\* happened since, the snapshot is the terminal's settings right before that
\* start, and the only tcsetattr call so far is that start's.  The snapshot
\* is set in one step only, a start's, from no snapshot to the settings the
\* terminal then has, and every other change of it clears it.
C19_SnapshotOnlyInTtySession ==
    /\ [](original_term # None =>
             /\ child_io.kind = "TTY" /\ io_kind = "TTY"
             /\ start_result \in {"ok", "tcsetattr"}
             /\ stop_result = "none" /\ ~dropped
             /\ original_term = Some(captured)
             /\ tcsetattr_calls = 1
             /\ restore_result = "none")
    /\ [][original_term' # original_term =>
             \/ /\ original_term = None
                /\ start_result = "none" /\ start_result' \in {"ok", "tcsetattr"}
                /\ original_term' = Some(term)
             \/ original_term' = None]_vars

\* A TTY session on a terminal that had echo off: the snapshot holds those
\* settings and the terminal is raw.
C19_Witness ==
    /\ TtySessionStarted
    /\ original_term = Some(NoEchoTerm)
    /\ captured = NoEchoTerm
    /\ term = CfMakeRaw(NoEchoTerm) /\ term # NoEchoTerm

\* C20 as stated: a log path is remembered only while the Monitor is
\* monitoring, that is after a start that returned Ok and before a stop that
\* returned Ok; and after a start that returned an error none is remembered.
C20_LogPathOnlyWhileMonitoring ==
    /\ log_path # None => (start_result = "ok" /\ ~stopped_ok)
    /\ StartFailed => log_path = None

\* C21: a step that makes the restoring tcsetattr call (a tcsetattr call
\* after start was called) starts with a snapshot and ends without one,
\* whether the call succeeds or fails; so once a restore has been attempted
\* the snapshot is gone, the attempt was the only one (two tcsetattr calls in
\* all, start's and the restore's), and no later step, a further stop or the
\* drop, calls tcsetattr or changes the terminal.
C21_RestoreAttemptedAtMostOnce ==
    /\ [][(start_result # "none" /\ tcsetattr_calls' # tcsetattr_calls) =>
             /\ original_term # None
             /\ original_term' = None
             /\ tcsetattr_calls' = tcsetattr_calls + 1
             /\ restore_result = "none"
             /\ restore_result' \in {"ok", "err"}]_vars
    /\ [](restore_result # "none" =>
             /\ original_term = None
             /\ tcsetattr_calls = 2)
    /\ [][restore_result # "none" =>
             UNCHANGED <<term, tcsetattr_calls, restore_result, original_term>>]_vars

\* The restore attempted by a stop of a TTY session failed; a later stop and
\* the drop followed: still two tcsetattr calls in all, the terminal is
\* left raw and no snapshot is held.
C21_Witness ==
    /\ TtySessionStarted
    /\ restore_result = "err"
    /\ stopped_ok /\ stop_result = "err" /\ dropped
    /\ tcsetattr_calls = 2
    /\ original_term = None
    /\ IsRaw(term) /\ ~IsRaw(captured)

\* C22: in every step of the SDK client, whatever calls came before:
\* is_started turns true only in a start_sandbox whose request was sent and
\* got a successful response, and such a start turns it true; it turns false
\* only in a stop_sandbox whose request was sent and got a successful
\* response; a start_sandbox or stop_sandbox that does not return Ok leaves
\* it as it was; start_sandbox on a started client and stop_sandbox on a
\* client that is not started return Ok, send nothing and leave is_started
\* alone; and run_code on a client that is not started returns NotStarted
\* and sends nothing.
C22_IsStartedFollowsResponses ==
    [][LET was == client.is_started
           now == client'.is_started
           call == client'.last
           silent == client'.sent = client.sent
       IN  /\ (~was /\ now) =>
                  /\ call.op = "start_sandbox"
                  /\ RequestSucceeds(call.outcome) /\ call.ret = "Ok"
                  /\ client'.sent = Append(client.sent, "sandbox.start")
           /\ (~was /\ call.op = "start_sandbox" /\ call.ret = "Ok") => now
           /\ (was /\ ~now) =>
                  /\ call.op = "stop_sandbox"
                  /\ RequestSucceeds(call.outcome) /\ call.ret = "Ok"
                  /\ client'.sent = Append(client.sent, "sandbox.stop")
           /\ (call.op \in {"start_sandbox", "stop_sandbox"} /\ call.ret # "Ok") =>
                  now = was
           /\ (was /\ call.op = "start_sandbox") =>
                  call.ret = "Ok" /\ silent /\ now
           /\ (~was /\ call.op = "stop_sandbox") =>
                  call.ret = "Ok" /\ silent /\ ~now
           /\ (~was /\ call.op = "run_code") =>
                  call.ret = "NotStarted" /\ silent /\ ~now]_vars

\* The client was started and stopped, each by one successful request, and
\* a run_code that followed returned NotStarted without a third request.
C22_Witness ==
    /\ ~client.is_started
    /\ client.sent = <<"sandbox.start", "sandbox.stop">>
    /\ client.last.op = "run_code"
    /\ client.last.ret = "NotStarted"

====
